---- MODULE Spec2Model ----
(***************************************************************************)
(* Model of the gap-filling and anomaly-scoring core of dookda/envi_aqi.   *)
(*                                                                         *)
(*   backend/enhanced_lstm_model.py  EnhancedLSTMModel, fill_gaps          *)
(*   backend/lstm_gap_filler.py      LSTMGapFiller, fill_gaps              *)
(*   backend/anomaly_detector.py     AnomalyDetector                       *)
(*   backend/model_manager.py        ModelManager (model cache)            *)
(*                                                                         *)
(* Values are non-negative integers (concentrations); a missing value is   *)
(* NaN.  A series is a sequence of values at consecutive, unique hourly    *)
(* timestamps, so label-based indexing (.loc) and positional indexing      *)
(* (.iloc) address the same row.  Of the feature columns only column 0,    *)
(* PM25_filled_temp, is modelled: it is the column the windows' targets    *)
(* are taken from and the only column predict() inverse-scales.  A scaled  *)
(* cell is the exact fraction <<numerator, denominator>>.                  *)
(***************************************************************************)
EXTENDS Integers, Sequences, FiniteSets, TLC

VARIABLES
    inst,      \* the model instance: EnhancedLSTMModel or LSTMGapFiller
    bundle,    \* the bundle persisted by save_model (the three artifacts)
    call,      \* the last operation on the instance and what it returned
    det,       \* the last AnomalyDetector.detect_all call and its result
    cached,    \* the instance ModelManager._loaded_models hands to requests
    req,       \* the two requests running fill_gaps on the cached instance
    mgr        \* ModelManager: _loaded_models by sequence_length, last call

vars == <<inst, bundle, call, det, cached, req, mgr>>

-----------------------------------------------------------------------------
(* Bounds of the model                                                     *)

MaxLen == 3        \* longest series of the exhaustive gap-fill model
MaxVal == 1        \* largest value of the exhaustive gap-fill model
MaxSeqLen == 2     \* largest sequence_length of the exhaustive model
MaxW == 2          \* weight vectors a training run can end in: 0..MaxW
MaxLongLen == 46   \* longest series of the patterned (long) inputs
MaxPeriod == 5     \* longest gap period of the patterned inputs
MaxAnomLen == 52   \* longest series given to detect_all
MaxConc == 601     \* largest value given to detect_domain_anomalies
MaxMLMod == 3      \* Isolation Forest outcomes: flag every m-th point

-----------------------------------------------------------------------------
(* Missing values                                                          *)

NaN == 0 - 1

IsNa(v) == v = NaN

SetMax(S) == CHOOSE x \in S : \A y \in S : y <= x

SetMin(S) == CHOOSE x \in S : \A y \in S : x <= y

Values == 0..MaxVal

SeriesOfLen(n) == [1..n -> Values \cup {NaN}]

AllSeries == UNION {SeriesOfLen(n) : n \in 1..MaxLen}

\* sequence_length=24, the default of both classes
DefaultSeqLen == 24

SeqLens == 1..MaxSeqLen

\* long inputs: n hourly values cycling through Values, missing at every
\* m-th hour from hour c on (m = 0: none missing)
LongSeries ==
    {[i \in 1..n |-> IF m > 0 /\ i % m = c THEN NaN ELSE i % (MaxVal + 1)] :
        n \in {DefaultSeqLen, 30, MaxLongLen},
        m \in {0} \cup (2..MaxPeriod), c \in 0..1}


Weights == 0..MaxW

-----------------------------------------------------------------------------
(* Feature engineering: the temporary fill and the gap bit                 *)

\* Series.ffill(): the last present value at or before i, NaN if none
FFill(s) ==
    [i \in 1..Len(s) |->
        LET P == {j \in 1..i : ~IsNa(s[j])}
        IN  IF P = {} THEN NaN ELSE s[SetMax(P)]]

\* Series.bfill(): the first present value at or after i, NaN if none
BFill(s) ==
    [i \in 1..Len(s) |->
        LET P == {j \in i..Len(s) : ~IsNa(s[j])}
        IN  IF P = {} THEN NaN ELSE s[SetMin(P)]]

\* df['PM25_filled_temp'] = df[value_column].ffill().bfill()
FilledTemp(s) == BFill(FFill(s))

\* (mutant) the gap bit taken after the temporary fill
HasGapOfFilled(s) == [i \in 1..Len(s) |-> IsNa(FilledTemp(s)[i])]

\* df['has_gap'] = df[value_column].isna()
HasGap(s) == [i \in 1..Len(s) |-> IsNa(s[i])]

-----------------------------------------------------------------------------
(* MinMaxScaler(feature_range=(0, 1)), column 0                            *)

NFeaturesEnhanced == 17

NFeaturesBasic == 6

Unfitted == [data_min |-> NaN, data_max |-> NaN, n_features_in |-> 0]

\* fit: nanmin / nanmax of the column, NaN when the column is all NaN
ScalerFit(col, nfeat) ==
    LET P == {col[i] : i \in 1..Len(col)} \ {NaN}
    IN  [data_min |-> IF P = {} THEN NaN ELSE SetMin(P),
         data_max |-> IF P = {} THEN NaN ELSE SetMax(P),
         n_features_in |-> nfeat]

\* _handle_zeros_in_scale: a zero data_range_ scales by 1
ScaleRange(sc) ==
    IF sc.data_max = sc.data_min THEN 1 ELSE sc.data_max - sc.data_min

NaNCell == <<NaN, 1>>

\* transform: (x - data_min) / range as the fraction <<num, den>>
ScalerTransform(sc, x) ==
    IF IsNa(x) \/ IsNa(sc.data_min) THEN NaNCell
    ELSE <<x - sc.data_min, ScaleRange(sc)>>

\* inverse_transform of a scaled prediction p in {0, 1}
ScalerInverse(sc, p) ==
    IF IsNa(p) \/ IsNa(sc.data_min) THEN NaN
    ELSE sc.data_min + p * ScaleRange(sc)

-----------------------------------------------------------------------------
(* Windowing                                                               *)

\* (mutant) the gap tag read from the window's last row, not the target
RECURSIVE WindowLoopTagInside(_, _, _, _, _)
WindowLoopTagInside(scaled, hasGap, L, i, acc) ==
    IF i >= Len(scaled) - L THEN acc
    ELSE WindowLoopTagInside(scaled, hasGap, L, i + 1,
            [X    |-> Append(acc.X, SubSeq(scaled, i + 1, i + L)),
             y    |-> Append(acc.y, scaled[i + L + 1]),
             gaps |-> Append(acc.gaps, hasGap[i + L])])

\* the body of the loop  for i in range(len(scaled_data) - sequence_length),
\* i counted from 0 as in the source
RECURSIVE WindowLoop(_, _, _, _, _)
WindowLoop(scaled, hasGap, L, i, acc) ==
    IF i >= Len(scaled) - L THEN acc
    ELSE WindowLoop(scaled, hasGap, L, i + 1,
            [X    |-> Append(acc.X, SubSeq(scaled, i + 1, i + L)),
             y    |-> Append(acc.y, scaled[i + L + 1]),
             gaps |-> Append(acc.gaps, hasGap[i + L + 1])])

NFeatures(kind) ==
    IF kind = "enhanced" THEN NFeaturesEnhanced ELSE NFeaturesBasic

\* prepare_training_data / prepare_data: returns the refitted scaler, the
\* scaled table and the windows X, targets y and gap tags
PrepareTrainingData(kind, L, s) ==
    LET filled == FilledTemp(s)
        sc     == ScalerFit(filled, NFeatures(kind))
        scaled == [i \in 1..Len(s) |-> ScalerTransform(sc, filled[i])]
        w      == WindowLoop(scaled, HasGap(s), L, 0,
                             [X |-> <<>>, y |-> <<>>, gaps |-> <<>>])
    IN  [scaler |-> sc, scaled |-> scaled, has_gap |-> HasGap(s),
         X |-> w.X, y |-> w.y, gaps |-> w.gaps]

-----------------------------------------------------------------------------
(* The network                                                             *)

\* self.model = None
NoModel == [w |-> NaN, fitted |-> FALSE, input_length |-> 0]

\* self.metadata = {}
NoMetadata == [training_epochs |-> 0, sequence_length |-> 0, n_features |-> 0]

\* build_enhanced_model / build_model: a network whose input shape is
\* (sequence_length, n_features); EnhancedLSTMModel also starts its metadata
\* anew with that shape
BuildModel(i) ==
    [i EXCEPT
        !.model = [w |-> 0, fitted |-> FALSE,
                   input_length |-> i.sequence_length],
        !.metadata = IF i.kind = "enhanced"
                     THEN [training_epochs |-> 0,
                           sequence_length |-> i.sequence_length,
                           n_features |-> NFeaturesEnhanced]
                     ELSE @]

\* whether windows of the instance's sequence_length fit the input shape of
\* its network; Keras rejects any other shape
InputFits(i) == i.model.input_length = i.sequence_length

\* self.model.predict(X) for one window: the scaled output of the network
\* with weights w.  The network is a function of its weights and its input
\* window; three such functions stand for the ones training can reach
\* (constant 0, constant 1, a threshold on the window's last row), and a
\* NaN anywhere in the input gives a NaN output.
Net(w, win) ==
    IF \E k \in 1..Len(win) : IsNa(win[k][1]) THEN NaN
    ELSE IF w = 0 THEN 0
    ELSE IF w = 1 THEN 1
    ELSE IF w * win[Len(win)][1] >= win[Len(win)][2] THEN 1 ELSE 0

\* predict(): the network on every window, then inverse_transform of
\* column 0 with the scaler the instance holds at that moment
Predict(i, X) ==
    [k \in 1..Len(X) |-> ScalerInverse(i.scaler, Net(i.model.w, X[k]))]

\* (mutant) predict without the check for a missing network
PredictOnUnchecked(i, X) ==
    [ok |-> TRUE, predictions |-> Predict(i, X)]

\* predict(X) as a call: ValueError when self.model is None; the network
\* rejects an empty batch and windows of another shape; an unfitted scaler
\* has no n_features_in_
PredictOn(i, X) ==
    IF \/ i.model = NoModel
       \/ Len(X) = 0
       \/ ~InputFits(i)
       \/ i.scaler = Unfitted
    THEN [ok |-> FALSE, predictions |-> <<>>]
    ELSE [ok |-> TRUE, predictions |-> Predict(i, X)]

-----------------------------------------------------------------------------
(* The training split of fill_gaps                                         *)

\* X[non_gap_mask]: the window numbers whose target is not a gap, in order
RECURSIVE NonGap(_, _)
NonGap(gaps, k) ==
    IF k > Len(gaps) THEN <<>>
    ELSE IF gaps[k] THEN NonGap(gaps, k + 1)
    ELSE <<k>> \o NonGap(gaps, k + 1)

\* (mutant) a split at len - 1: one validation window whatever the count
SplitIdxLastOne(kind, n) == IF n = 0 THEN 0 ELSE n - 1

\* int(len(X_nongap) * 0.9) in EnhancedLSTMModel.fill_gaps, and
\* int(len(X_nongap) * train_ratio) with train_ratio=0.8 in LSTMGapFiller
SplitIdx(kind, n) ==
    IF kind = "enhanced" THEN (9 * n) \div 10 ELSE (8 * n) \div 10

\* X_train = X_nongap[:split_idx]
TrainSet(kind, gaps) ==
    SubSeq(NonGap(gaps, 1), 1, SplitIdx(kind, Len(NonGap(gaps, 1))))

\* X_val = X_nongap[split_idx:]
ValSet(kind, gaps) ==
    SubSeq(NonGap(gaps, 1), SplitIdx(kind, Len(NonGap(gaps, 1))) + 1,
           Len(NonGap(gaps, 1)))

\* train(): builds the network when there is none, then fits it.  Keras
\* rejects an empty training set, and with no window at all the split
\* itself fails before a network is built.  w is what the fit ends in:
\* the learned weights, and w + 1 epochs run.
Train(i, p, w) ==
    LET tr == TrainSet(i.kind, p.gaps)
        built == IF i.model = NoModel THEN BuildModel(i) ELSE i
    IN  IF Len(p.X) = 0 THEN [ok |-> FALSE, inst |-> i]
        ELSE IF Len(tr) = 0 \/ ~InputFits(built)
        THEN [ok |-> FALSE, inst |-> built]
        ELSE [ok |-> TRUE,
              inst |-> [built EXCEPT
                  !.model.w = w,
                  !.model.fitted = TRUE,
                  !.metadata.training_epochs =
                      IF i.kind = "enhanced" THEN w + 1 ELSE @]]

-----------------------------------------------------------------------------
(* fill_gaps                                                               *)

\* aligned_index = df.index[sequence_length:]; row r is the target of
\* window r - L
Aligned(L, r) == r > L

\* result_df.loc[aligned_index, 'predicted_value'] = predictions
PredictedValue(L, pred, r) ==
    IF Aligned(L, r) THEN pred[r - L] ELSE NaN

\* (mutant) the gap mask applied to df.index, not to aligned_index
IsGapIndexUnaligned(L, gaps, r) == r <= Len(gaps) /\ gaps[r]

\* gap_indices = aligned_index[gaps]
IsGapIndex(L, gaps, r) == Aligned(L, r) /\ gaps[r - L]

\* (mutant) every aligned row takes the prediction
FilledValueAllAligned(s, L, gaps, pred, r) ==
    IF Aligned(L, r) THEN PredictedValue(L, pred, r) ELSE s[r]

\* filled_value = value, then .loc[gap_indices] = predicted_value
FilledValue(s, L, gaps, pred, r) ==
    IF IsGapIndex(L, gaps, r) THEN PredictedValue(L, pred, r) ELSE s[r]

\* the rows of result_df
ResultRows(s, L, gaps, pred) ==
    [r \in 1..Len(s) |->
        [value           |-> s[r],
         filled_value    |-> FilledValue(s, L, gaps, pred, r),
         predicted_value |-> PredictedValue(L, pred, r),
         was_gap         |-> IsGapIndex(L, gaps, r),
         gap_filled      |-> IsGapIndex(L, gaps, r)]]

\* whether fill_gaps trains: EnhancedLSTMModel only when it has no network,
\* LSTMGapFiller on every call
NeedsTraining(i) == i.kind = "basic" \/ i.model = NoModel

NoCall ==
    [op |-> "none", ok |-> TRUE, input |-> <<>>, L |-> 0,
     X |-> <<>>, y |-> <<>>, gaps |-> <<>>, scaled |-> <<>>,
     has_gap |-> <<>>, split |-> FALSE, trained |-> FALSE,
     train |-> <<>>, val |-> <<>>,
     predictions |-> <<>>, rows |-> <<>>, index |-> <<>>,
     features |-> <<>>, load_ok |-> FALSE, written |-> 0,
     value |-> 0, param |-> "PM25", level |-> "good"]

\* the whole of fill_gaps on instance i and series s: the instance it
\* leaves and the record of the call
FillGapsOn(i, s, w) ==
    LET p  == PrepareTrainingData(i.kind, i.sequence_length, s)
        i1 == [i EXCEPT !.scaler = p.scaler]
        t  == IF NeedsTraining(i1) THEN Train(i1, p, w)
              ELSE [ok |-> TRUE, inst |-> i1]
        i2 == t.inst
        split == NeedsTraining(i1) /\ Len(p.X) > 0
        base == [NoCall EXCEPT !.op = "fill_gaps", !.input = s,
                    !.L = i.sequence_length, !.X = p.X, !.y = p.y,
                    !.gaps = p.gaps, !.scaled = p.scaled,
                    !.has_gap = p.has_gap, !.split = split,
                    !.train = IF split THEN TrainSet(i.kind, p.gaps)
                              ELSE <<>>,
                    !.val = IF split THEN ValSet(i.kind, p.gaps)
                            ELSE <<>>]
    IN  IF ~t.ok \/ Len(p.X) = 0 \/ ~InputFits(i2)
        THEN [inst |-> i2, call |-> [base EXCEPT !.ok = FALSE]]
        ELSE LET pred == Predict(i2, p.X)
             IN  [inst |-> i2,
                  call |-> [base EXCEPT
                     !.trained = NeedsTraining(i1),
                     !.predictions = pred,
                     !.rows = ResultRows(s, i.sequence_length, p.gaps,
                                         pred)]]

-----------------------------------------------------------------------------
(* save_model, load_model: the bundle of three artifacts                   *)

NoFile(content) == [exists |-> FALSE, content |-> content]

File(content) == [exists |-> TRUE, content |-> content]

\* the dictionary np.save writes for the scaler (column 0 of each array)
ScalerToFile(sc) ==
    [data_min_       |-> sc.data_min,
     data_max_       |-> sc.data_max,
     data_range_     |-> IF IsNa(sc.data_min) THEN NaN
                         ELSE sc.data_max - sc.data_min,
     n_features_in_  |-> sc.n_features_in,
     feature_range   |-> <<0, 1>>]

\* (mutant) data_max_ taken from the stored data_range_
ScalerFromFileRange(d) ==
    [data_min |-> d.data_min_, data_max |-> d.data_range_,
     n_features_in |-> d.n_features_in_]

\* the MinMaxScaler load_model rebuilds from that dictionary
ScalerFromFile(d) ==
    [data_min |-> d.data_min_, data_max |-> d.data_max_,
     n_features_in |-> d.n_features_in_]

\* json.dump(self.metadata): the key and value pairs of the object
MetadataToJson(m) ==
    <<<<"training_epochs", m.training_epochs>>,
      <<"sequence_length", m.sequence_length>>,
      <<"n_features", m.n_features>>>>

JsonGet(j, key) == (CHOOSE k \in 1..Len(j) : j[k][1] = key)

\* json.load of the metadata file
MetadataFromJson(j) ==
    [training_epochs |-> j[JsonGet(j, "training_epochs")][2],
     sequence_length |-> j[JsonGet(j, "sequence_length")][2],
     n_features      |-> j[JsonGet(j, "n_features")][2]]

NoBundle ==
    [keras |-> NoFile(NoModel), scaler |-> NoFile(ScalerToFile(Unfitted)),
     metadata |-> NoFile(MetadataToJson(NoMetadata))]

\* save_model on instance i, the disk holding bundle b: raises without a
\* network; writes the network, then the scaler (an unfitted scaler has no
\* data_min_ and raises there), then the metadata
SaveModelOn(i, b) ==
    IF i.model = NoModel THEN [ok |-> FALSE, bundle |-> b]
    ELSE IF i.scaler = Unfitted
    THEN [ok |-> FALSE, bundle |-> [b EXCEPT !.keras = File(i.model)]]
    ELSE [ok |-> TRUE,
          bundle |-> [keras    |-> File(i.model),
                      scaler   |-> File(ScalerToFile(i.scaler)),
                      metadata |-> File(MetadataToJson(i.metadata))]]

\* a bundle as save_model writes it after a training run that ended in
\* weights w with the scaler fitted to data spanning lo..hi, by an
\* instance of sequence_length L
SavedBundle(w, lo, hi, L) ==
    [keras    |-> File([w |-> w, fitted |-> TRUE, input_length |-> L]),
     scaler   |-> File(ScalerToFile([data_min |-> lo, data_max |-> hi,
                                     n_features_in |-> NFeaturesEnhanced])),
     metadata |-> File(MetadataToJson(
                        [training_epochs |-> w + 1, sequence_length |-> L,
                         n_features |-> NFeaturesEnhanced]))]

\* the bundles an earlier training run can have left on disk
Bundles ==
    {NoBundle} \cup
    {SavedBundle(w, r[1], r[2], L) :
        w \in Weights, r \in {q \in Values \X Values : q[1] <= q[2]},
        L \in SeqLens}

\* load_model: reads the three artifacts in order, assigning each field as
\* it goes; a missing artifact raises and leaves the later fields as they
\* were
LoadModelOn(i, b) ==
    IF ~b.keras.exists THEN [ok |-> FALSE, inst |-> i]
    ELSE IF ~b.scaler.exists
    THEN [ok |-> FALSE, inst |-> [i EXCEPT !.model = b.keras.content]]
    ELSE IF ~b.metadata.exists
    THEN [ok |-> FALSE,
          inst |-> [i EXCEPT !.model = b.keras.content,
                             !.scaler = ScalerFromFile(b.scaler.content)]]
    ELSE [ok |-> TRUE,
          inst |-> [i EXCEPT
                      !.model = b.keras.content,
                      !.scaler = ScalerFromFile(b.scaler.content),
                      !.metadata = MetadataFromJson(b.metadata.content)]]

-----------------------------------------------------------------------------
(* AnomalyDetector: the statistical detector                               *)

\* df[value_column].dropna(): the present values, in order
Present(x) == ~IsNa(x)

DropNa(s) == SelectSeq(s, Present)

\* the sum of v[lo..hi], by halves
RECURSIVE SumOf(_, _, _)
SumOf(v, lo, hi) ==
    IF lo > hi THEN 0
    ELSE IF lo = hi THEN v[lo]
    ELSE SumOf(v, lo, (lo + hi) \div 2)
         + SumOf(v, (lo + hi) \div 2 + 1, hi)

\* the sum of the squares of v[lo..hi], by halves
RECURSIVE SumSqOf(_, _, _)
SumSqOf(v, lo, hi) ==
    IF lo > hi THEN 0
    ELSE IF lo = hi THEN v[lo] * v[lo]
    ELSE SumSqOf(v, lo, (lo + hi) \div 2)
         + SumSqOf(v, (lo + hi) \div 2 + 1, hi)

Abs(x) == IF x < 0 THEN 0 - x ELSE x

\* a/b < c/d for a, c >= 0 and b, d > 0, by integer parts and remainders,
\* so that no product is formed
RECURSIVE FracLess(_, _, _, _)
FracLess(a, b, c, d) ==
    IF a \div b # c \div d THEN a \div b < c \div d
    ELSE IF c % d = 0 THEN FALSE
    ELSE IF a % b = 0 THEN TRUE
    ELSE FracLess(d, c % d, b, a % b)

\* z_threshold=3.0, as the square the comparison below uses
ZThresholdSq == 9

\* the k-th smallest of the values
Kth(v, k) ==
    CHOOSE x \in {v[j] : j \in 1..Len(v)} :
        /\ Cardinality({j \in 1..Len(v) : v[j] < x}) < k
        /\ Cardinality({j \in 1..Len(v) : v[j] <= x}) >= k

\* 4 * values.quantile(num / 4), linear interpolation between the order
\* statistics around position (n - 1) * num / 4
Quantile4(v, num) ==
    LET h  == (Len(v) - 1) * num
        lo == Kth(v, h \div 4 + 1)
        hi == IF h % 4 = 0 THEN lo ELSE Kth(v, h \div 4 + 2)
    IN  4 * lo + (h % 4) * (hi - lo)

\* the statistics of the present values v: their count n, sum S,
\* n * (square sum) - S^2 (that is n (n - 1) std^2), and 4 Q1, 4 Q3
Stats(v) ==
    LET S == SumOf(v, 1, Len(v))
    IN  [n  |-> Len(v),
         S  |-> S,
         M  |-> Len(v) * SumSqOf(v, 1, Len(v)) - S * S,
         q1 |-> Quantile4(v, 1),
         q3 |-> Quantile4(v, 3)]

\* (mutant) a zero standard deviation taken as an infinite z-score
ZAnomalyInfOnZero(st, x) ==
    LET D == Abs(st.n * x - st.S)
    IN  IF st.M = 0 THEN TRUE
        ELSE IF D = 0 THEN FALSE
        ELSE FracLess(st.M, (st.n - 1) * D, D, ZThresholdSq * st.n)

\* z_scores > z_threshold with z = |x - mean| / std and std the sample
\* standard deviation (ddof = 1).  With D = |n x - S|:
\*     z > 3  iff  D^2 (n - 1) > 9 n (n Q - S^2),
\* which is false when std is 0 or undefined (n = 1), as the comparison
\* with NaN is.
ZAnomaly(st, x) ==
    LET D == Abs(st.n * x - st.S)
    IN  IF D = 0 THEN FALSE
        ELSE FracLess(st.M, (st.n - 1) * D, D, ZThresholdSq * st.n)

\* (values < Q1 - 1.5 IQR) | (values > Q3 + 1.5 IQR), times 8
IqrAnomaly(st, x) ==
    \/ 8 * x < 5 * st.q1 - 3 * st.q3
    \/ 8 * x > 5 * st.q3 - 3 * st.q1

\* z_scores > z_threshold for a threshold given in halves (h / 2):
\*     z > h / 2  iff  4 D^2 (n - 1) > h^2 n (n Q - S^2)
ZAnomalyAt(st, x, h) ==
    LET D == Abs(st.n * x - st.S)
    IN  IF D = 0 THEN FALSE
        ELSE FracLess(st.M, (st.n - 1) * D, 4 * D, h * h * st.n)

\* (mutant) the points inside the fences flagged, not those outside
IqrAnomalyAtInside(st, x, m) ==
    /\ 8 * x >= (2 + m) * st.q1 - m * st.q3
    /\ 8 * x <= (2 + m) * st.q3 - m * st.q1

\* (values < Q1 - k IQR) | (values > Q3 + k IQR) for a multiplier given
\* in halves (k = m / 2), times 8
IqrAnomalyAt(st, x, m) ==
    \/ 8 * x < (2 + m) * st.q1 - m * st.q3
    \/ 8 * x > (2 + m) * st.q3 - m * st.q1

-----------------------------------------------------------------------------
(* AnomalyDetector: the domain detector                                    *)

Thresholds(param_type) ==
    IF param_type = "PM10"
    THEN [safe |-> 50, moderate |-> 150, unhealthy_sensitive |-> 250,
          unhealthy |-> 350, very_unhealthy |-> 420, hazardous |-> 600]
    ELSE IF param_type = "O3"
    THEN [safe |-> 100, moderate |-> 160, unhealthy_sensitive |-> 200,
          unhealthy |-> 300, very_unhealthy |-> 400, hazardous |-> 600]
    ELSE [safe |-> 15, moderate |-> 35, unhealthy_sensitive |-> 55,
          unhealthy |-> 150, very_unhealthy |-> 250, hazardous |-> 500]

\* (mutant) strict comparisons: a value on a threshold falls a band lower
HealthLevelStrict(val, param_type) ==
    LET th == Thresholds(param_type)
    IN  IF IsNa(val) THEN "unknown"
        ELSE IF val > th.hazardous THEN "hazardous"
        ELSE IF val > th.very_unhealthy THEN "very_unhealthy"
        ELSE IF val > th.unhealthy THEN "unhealthy"
        ELSE IF val > th.unhealthy_sensitive THEN "unhealthy_sensitive"
        ELSE IF val > th.moderate THEN "moderate"
        ELSE "safe"

\* (mutant) the cascade entered from below: whatever meets the moderate
\* threshold stops there
HealthLevelModerateFirst(val, param_type) ==
    LET th == Thresholds(param_type)
    IN  IF IsNa(val) THEN "unknown"
        ELSE IF val >= th.moderate THEN "moderate"
        ELSE IF val >= th.unhealthy_sensitive THEN "unhealthy_sensitive"
        ELSE IF val >= th.unhealthy THEN "unhealthy"
        ELSE IF val >= th.very_unhealthy THEN "very_unhealthy"
        ELSE IF val >= th.hazardous THEN "hazardous"
        ELSE "safe"

\* the cascade of detect_domain_anomalies, hazardous first
HealthLevel(val, param_type) ==
    LET th == Thresholds(param_type)
    IN  IF IsNa(val) THEN "unknown"
        ELSE IF val >= th.hazardous THEN "hazardous"
        ELSE IF val >= th.very_unhealthy THEN "very_unhealthy"
        ELSE IF val >= th.unhealthy THEN "unhealthy"
        ELSE IF val >= th.unhealthy_sensitive THEN "unhealthy_sensitive"
        ELSE IF val >= th.moderate THEN "moderate"
        ELSE "safe"

\* the flag appended beside each level
IsHazardous(val, param_type) ==
    LET th == Thresholds(param_type)
    IN  ~IsNa(val) /\ val >= th.unhealthy

-----------------------------------------------------------------------------
(* AnomalyDetector: the ML detector and the fusion                         *)

\* len(df_clean) > 50
MLFloor == 50

\* whether detect_all calls detect_ml_anomalies
MLAttempted(sklearn, n) == sklearn /\ n > MLFloor

\* is_anomaly of the Isolation Forest for point k: the forest is fitted per
\* call; its outcome m stands for 'no point', or 'every m-th point'
MLFlag(m, k) == m > 0 /\ k % m = 0

Bit(b) == IF b THEN 1 ELSE 0

\* (mutant) the three remaining weights renormalised when ML did not run
CombinedScoreRenorm(z, iqr, haz, mlRan, ml) ==
    IF mlRan THEN 3 * Bit(z) + 3 * Bit(iqr) + 2 * Bit(haz) + 2 * Bit(ml)
    ELSE (10 * (3 * Bit(z) + 3 * Bit(iqr) + 2 * Bit(haz))) \div 8

\* combined_scores in tenths: += 0.3 z, += 0.3 iqr, += 0.2 hazardous, and
\* += 0.2 ml only if 'ml' in results.  (The float sums compare with 0.5,
\* 0.8 and 1.0 as these tenths compare with 5, 8 and 10.)
CombinedScore(z, iqr, haz, mlRan, ml) ==
    LET s1 == 3 * Bit(z)
        s2 == s1 + 3 * Bit(iqr)
        s3 == s2 + 2 * Bit(haz)
    IN  IF mlRan THEN s3 + 2 * Bit(ml) ELSE s3

\* (mutant) a score of exactly 0.5 counted as an anomaly
IsAnomalyCombinedInclusive(score) == score >= 5

\* combined_scores > 0.5
IsAnomalyCombined(score) == score > 5

\* detect_domain_anomalies on a frame: one level and flag per present value
DetectDomainOn(data, param_type) ==
    LET v == DropNa(data)
    IN  [k \in 1..Len(v) |->
            [value        |-> v[k],
             health_level |-> HealthLevel(v[k], param_type),
             is_hazardous |-> IsHazardous(v[k], param_type)]]

NoDetResult(sklearn) ==
    [op |-> "none", sklearn |-> sklearn, param_type |-> "PM25",
     data |-> <<>>, error |-> FALSE, total_points |-> 0,
     valid_points |-> 0, ml_ran |-> FALSE, ml_error |-> FALSE,
     detailed |-> <<>>, raised |-> FALSE, success |-> FALSE,
     z_threshold |-> 6, iqr_multiplier |-> 3]

\* detect_all on the records `data`; the Isolation Forest, when called,
\* raises (mlRaises) or flags by outcome m.  An empty list makes a frame
\* without the value column, and df[value_column] raises KeyError; records
\* without a valid value give the error dictionary.
DetectAllOn(sklearn, data, param_type, mlRaises, m) ==
    LET v     == DropNa(data)
        n     == Len(v)
        mlRan == MLAttempted(sklearn, n) /\ ~mlRaises
        dom   == DetectDomainOn(data, param_type)
        st    == Stats(v)
        base  == [NoDetResult(sklearn) EXCEPT !.op = "detect_all",
                     !.param_type = param_type, !.data = data]
    IN  IF Len(data) = 0
        THEN [base EXCEPT !.raised = TRUE]
        ELSE IF n = 0
        THEN [base EXCEPT !.error = TRUE, !.total_points = Len(data)]
        ELSE [base EXCEPT
                !.total_points = n,
                !.valid_points = n,
                !.ml_ran = mlRan,
                !.ml_error = MLAttempted(sklearn, n) /\ mlRaises,
                !.detailed =
                    [k \in 1..n |->
                        LET z   == ZAnomaly(st, v[k])
                            iqr == IqrAnomaly(st, v[k])
                            haz == dom[k].is_hazardous
                            ml  == mlRan /\ MLFlag(m, k)
                            sc  == CombinedScore(z, iqr, haz, mlRan, ml)
                        IN  [value          |-> v[k],
                             is_z_anomaly   |-> z,
                             is_iqr_anomaly |-> iqr,
                             health_level   |-> dom[k].health_level,
                             is_hazardous   |-> haz,
                             is_ml_anomaly  |-> ml,
                             combined_score |-> sc,
                             is_anomaly     |-> IsAnomalyCombined(sc)]]]

-----------------------------------------------------------------------------
(* Feature engineering: the frame prepare_training_data returns            *)

\* for lag in [1, 2, 3, 6, 12, 24]
Lags == <<1, 2, 3, 6, 12, 24>>

\* Series.shift(lag): row i takes the value of row i - lag, the first rows
\* NaN
Shift(col, lag) ==
    [i \in 1..Len(col) |-> IF i > lag THEN col[i - lag] ELSE NaN]

\* a column as the frame stores it: the values of its rows, in order
Column(col) == SubSeq(col, 1, Len(col))

\* df[temp_filled_col].shift(lag).fillna(method='bfill')
LagFeature(col, lag) == Column(BFill(Column(Shift(col, lag))))

\* rolling(window, min_periods=1) at row i: the present values among the
\* last `window` rows ending at i
RollWindow(col, window, i) ==
    DropNa(SubSeq(col, IF i > window THEN i - window + 1 ELSE 1, i))

\* .mean() of the window values v, as the fraction <<sum, count>>
RollMean(v) ==
    IF Len(v) = 0 THEN NaNCell ELSE <<SumOf(v, 1, Len(v)), Len(v)>>

\* .std().fillna(0) of the window values v, as its square: the sample
\* variance (n Q - S^2) / (n (n - 1)), undefined below two values and then 0
RollStdSq(v) ==
    IF Len(v) < 2 THEN <<0, 1>>
    ELSE <<Len(v) * SumSqOf(v, 1, Len(v))
               - SumOf(v, 1, Len(v)) * SumOf(v, 1, Len(v)),
           Len(v) * (Len(v) - 1)>>

\* .max() and .min() of the window values v
RollMax(v) ==
    IF Len(v) = 0 THEN NaN ELSE SetMax({v[k] : k \in 1..Len(v)})

RollMin(v) ==
    IF Len(v) = 0 THEN NaN ELSE SetMin({v[k] : k \in 1..Len(v)})

\* the rolling statistics of add_lag_features at one row, from the values
\* of its 6-hour and 24-hour windows
RollFeatures(v6, v24) ==
    [mean_6  |-> RollMean(v6),
     std_6   |-> RollStdSq(v6),
     mean_24 |-> RollMean(v24),
     max_24  |-> RollMax(v24),
     min_24  |-> RollMin(v24)]

\* the rows of the frame from its columns: the raw value, the temporary
\* fill, the gap bit, and for EnhancedLSTMModel the lag columns and the
\* rolling statistics (the temporal columns depend on the timestamp only
\* and are left out)
FrameRows(kind, s, filled, gap, lagcol) ==
    [i \in 1..Len(s) |->
        [value            |-> s[i],
         PM25_filled_temp |-> filled[i],
         has_gap          |-> gap[i],
         PM25_lag         |-> IF kind = "enhanced"
                              THEN [k \in 1..Len(Lags) |-> lagcol[k][i]]
                              ELSE <<>>,
         PM25_roll        |-> IF kind = "enhanced"
                              THEN RollFeatures(RollWindow(filled, 6, i),
                                                RollWindow(filled, 24, i))
                              ELSE <<>>]]

\* add_lag_features on the temporary fill: one column per lag, each
\* computed once and then read by every row
AddLagFeatures(kind, s, filled) ==
    CHOOSE rows \in
        {FrameRows(kind, s, filled, HasGap(s), lagcol) :
            lagcol \in {[k \in 1..Len(Lags) |->
                            LagFeature(filled, Lags[k])]}} : TRUE

\* the frame prepare_training_data / prepare_data returns, one row per
\* input row; the temporary fill is computed once, before the features
FeatureRows(kind, s) ==
    CHOOSE rows \in
        {AddLagFeatures(kind, s, filled) :
            filled \in {Column(FilledTemp(s))}} : TRUE

-----------------------------------------------------------------------------
(* The instance and its operations                                         *)

\* __init__: no network, an unfitted scaler, empty metadata
NewInstance(kind, L) ==
    [kind |-> kind, sequence_length |-> L, model |-> NoModel,
     scaler |-> Unfitted, metadata |-> NoMetadata]

Kinds == {"enhanced", "basic"}

NoDet == NoDetResult(TRUE)

NoReq == <<>>

\* ModelManager._loaded_models before any model is loaded
NoCache == [loaded |-> FALSE, inst |-> NewInstance("enhanced", 1)]

\* the result of a ModelManager call before any call
NoManagerOp ==
    [name |-> "none", ok |-> TRUE, parameter |-> <<>>, L |-> 0,
     force |-> FALSE,
     hasData |-> FALSE, data |-> <<>>, existed |-> FALSE,
     model |-> NewInstance("enhanced", 1)]

\* ModelManager.__init__: an empty cache (one parameter, PM25; the cache
\* key is then the sequence_length)
NoManager == [cache |-> [L \in SeqLens |-> NoCache], op |-> NoManagerOp]

\* prepare_training_data / prepare_data called on the instance
PrepareCall(s) ==
    /\ call.op = "none"
    /\ LET p == PrepareTrainingData(inst.kind, inst.sequence_length, s)
       IN  /\ inst' = [inst EXCEPT !.scaler = p.scaler]
           /\ call' = [NoCall EXCEPT !.op = "prepare", !.input = s,
                          !.L = inst.sequence_length, !.X = p.X, !.y = p.y,
                          !.gaps = p.gaps, !.scaled = p.scaled,
                          !.has_gap = p.has_gap,
                          !.features = FeatureRows(inst.kind, s)]
    /\ UNCHANGED <<bundle, det, cached, req, mgr>>

\* fill_gaps called on the instance
FillGaps(s, w) ==
    /\ call.op = "none"
    /\ LET r == FillGapsOn(inst, s, w)
       IN  /\ inst' = r.inst
           /\ call' = r.call
    /\ UNCHANGED <<bundle, det, cached, req, mgr>>

\* predict called on the instance with the windows of series s, scaled by
\* the caller
PredictCall(s) ==
    /\ call.op = "none"
    /\ LET p == PrepareTrainingData(inst.kind, inst.sequence_length, s)
           r == PredictOn(inst, p.X)
       IN  call' = [NoCall EXCEPT !.op = "predict", !.ok = r.ok,
                       !.input = s, !.L = inst.sequence_length, !.X = p.X,
                       !.predictions = r.predictions]
    /\ UNCHANGED <<inst, bundle, det, cached, req, mgr>>

\* load_model called on the instance (EnhancedLSTMModel only), the disk
\* holding bundle b
LoadModel(b) ==
    /\ call.op = "none"
    /\ inst.kind = "enhanced"
    /\ LET r == LoadModelOn(inst, b)
       IN  /\ inst' = r.inst
           /\ call' = [NoCall EXCEPT !.op = "load_model", !.ok = r.ok]
    /\ UNCHANGED <<bundle, det, cached, req, mgr>>

\* the caller takes the result; the instance is ready for its next call
Return ==
    /\ call.op # "none"
    /\ call' = NoCall
    /\ UNCHANGED <<inst, bundle, det, cached, req, mgr>>

InitFill ==
    /\ inst \in {NewInstance(k, L) : k \in Kinds, L \in SeqLens}
    /\ bundle = NoBundle
    /\ call = NoCall
    /\ det = NoDet
    /\ cached = NoCache
    /\ req = NoReq
    /\ mgr = NoManager

NextFill ==
    \/ \E s \in AllSeries : PrepareCall(s)
    \/ \E s \in AllSeries, w \in Weights : FillGaps(s, w)
    \/ \E s \in AllSeries : PredictCall(s)
    \/ \E b \in Bundles : LoadModel(b)
    \/ Return

SpecFill == InitFill /\ [][NextFill]_vars

\* the hours a record can carry, and the DatetimeIndex values of n records:
\* strictly increasing hours, consecutive or not
Hours == 1..(MaxLen + 1)

Indexes(n) ==
    {ts \in [1..n -> Hours] : \A k \in 1..(n - 1) : ts[k] < ts[k + 1]}

\* fill_gaps on records whose DATETIMEDATA are ts: the frame is indexed by
\* them as they come and prepare_training_data windows its rows
FillGapsAt(ts, s, w) ==
    /\ call.op = "none"
    /\ Len(ts) = Len(s)
    /\ LET r == FillGapsOn(inst, s, w)
       IN  /\ inst' = r.inst
           /\ call' = [r.call EXCEPT !.index = ts]
    /\ UNCHANGED <<bundle, det, cached, req, mgr>>

NextGrid ==
    \/ \E s \in AllSeries, w \in Weights :
          \E ts \in Indexes(Len(s)) : FillGapsAt(ts, s, w)
    \/ Return

SpecGrid == InitFill /\ [][NextGrid]_vars

\* the same operations on the long patterned inputs, the instance built
\* with the default sequence_length or a short one
InitLong ==
    /\ inst \in {NewInstance(k, L) :
                    k \in Kinds, L \in SeqLens \cup {DefaultSeqLen}}
    /\ bundle = NoBundle
    /\ call = NoCall
    /\ det = NoDet
    /\ cached = NoCache
    /\ req = NoReq
    /\ mgr = NoManager

\* the bundles on disk there: none, or one saved over the whole range of
\* values by an instance of one of those lengths
LongBundles ==
    {NoBundle} \cup
    {SavedBundle(w, 0, MaxVal, L) :
        w \in Weights, L \in SeqLens \cup {DefaultSeqLen}}

NextLong ==
    \/ \E s \in LongSeries : PrepareCall(s)
    \/ \E s \in LongSeries, w \in Weights : FillGaps(s, w)
    \/ \E b \in LongBundles : LoadModel(b)
    \/ Return

SpecLong == InitLong /\ [][NextLong]_vars

-----------------------------------------------------------------------------
(* The entry functions fill_air_quality_gaps_enhanced and                  *)
(* fill_air_quality_gaps                                                   *)

\* n_gaps = df[value_column].isna().sum()
NGaps(s) == Cardinality({r \in 1..Len(s) : IsNa(s[r])})

EntryName(kind) ==
    IF kind = "enhanced" THEN "fill_air_quality_gaps_enhanced"
    ELSE "fill_air_quality_gaps"

\* the entry function on the records s: with no gap the records go back as
\* they came; else a new instance (the enhanced one first tries load_model,
\* any exception swallowed) runs fill_gaps, whose exception propagates
FillAirQualityGapsOn(kind, s, L, b, w) ==
    LET new  == NewInstance(kind, L)
        ld   == LoadModelOn(new, b)
        i0   == IF kind = "enhanced" THEN ld.inst ELSE new
        r    == FillGapsOn(i0, s, w)
        base == [NoCall EXCEPT !.op = EntryName(kind), !.input = s, !.L = L]
    IN  IF NGaps(s) = 0
        THEN [inst |-> new,
              call |-> [base EXCEPT
                          !.rows = [k \in 1..Len(s) |-> [value |-> s[k]]]]]
        ELSE [inst |-> r.inst,
              call |-> [r.call EXCEPT
                          !.op = EntryName(kind),
                          !.load_ok = (kind = "enhanced" /\ ld.ok)]]

\* a request to one of the entry functions; the disk holds bundle b
FillAirQualityGaps(kind, s, L, b, w) ==
    /\ call.op = "none"
    /\ LET r == FillAirQualityGapsOn(kind, s, L, b, w)
       IN  /\ inst' = r.inst
           /\ call' = r.call
    /\ UNCHANGED <<bundle, det, cached, req, mgr>>

\* the entry function returns; its instance was a local
EntryReturn ==
    /\ call.op # "none"
    /\ call' = NoCall
    /\ inst' = NewInstance("enhanced", 1)
    /\ UNCHANGED <<bundle, det, cached, req, mgr>>

InitEntry ==
    /\ inst = NewInstance("enhanced", 1)
    /\ bundle = NoBundle
    /\ call = NoCall
    /\ det = NoDet
    /\ cached = NoCache
    /\ req = NoReq
    /\ mgr = NoManager

\* a bundle with artifacts missing, as an interrupted save_model or a
\* removed file leaves it: the scaler, the metadata or both
PartialBundles ==
    UNION {{[b EXCEPT !.metadata = NoBundle.metadata],
            [b EXCEPT !.scaler = NoBundle.scaler],
            [b EXCEPT !.scaler = NoBundle.scaler,
                      !.metadata = NoBundle.metadata]} :
              b \in Bundles \ {NoBundle}}

NextEntry ==
    \/ \E kind \in Kinds, s \in AllSeries, L \in SeqLens,
          b \in Bundles \cup PartialBundles, w \in Weights :
          FillAirQualityGaps(kind, s, L, b, w)
    \/ EntryReturn

SpecEntry == InitEntry /\ [][NextEntry]_vars

-----------------------------------------------------------------------------
(* Anomaly detection requests                                              *)

ParamTypes == {"PM25", "PM10", "O3", "CO"}

\* series given to detect_all: n values alternating between 0 and hi, the
\* last one replaced by sp, the first one missing when miss
AnomSeries ==
    {[i \in 1..n |-> IF i = n THEN sp
                     ELSE IF i = 1 /\ miss THEN NaN
                     ELSE IF i % 2 = 0 THEN 0 ELSE hi] :
        n \in {1, 2, 5, MLFloor, MLFloor + 1, MaxAnomLen},
        hi \in {0, 10, 100}, sp \in {NaN, 22, 160, 220, 600},
        miss \in BOOLEAN}

\* the request bodies: those series and the empty list
EndpointSeries == AnomSeries \cup {<<>>}

MLOutcomes == 0..MaxMLMod

\* detect_all(data, value_column, param_type)
DetectAll(data, param_type, mlRaises, m) ==
    /\ det.op = "none"
    /\ det' = DetectAllOn(det.sklearn, data, param_type, mlRaises, m)
    /\ UNCHANGED <<inst, bundle, call, cached, req, mgr>>

\* detect_domain_anomalies(df, value_column, param_type) on one value
DetectDomain(val, param_type) ==
    /\ det.op = "none"
    /\ det' = [NoDetResult(det.sklearn) EXCEPT
                  !.op = "domain", !.param_type = param_type,
                  !.data = <<val>>, !.total_points = 1,
                  !.detailed = DetectDomainOn(<<val>>, param_type)]
    /\ UNCHANGED <<inst, bundle, call, cached, req, mgr>>

\* the thresholds a caller passes, in halves: z_threshold 0.5 .. 4.0 and
\* iqr_multiplier 0 .. 3.0
ZThresholds == {1, 2, 3, 4, 6, 8}

IqrMultipliers == {0, 1, 2, 3, 4, 6}

\* detect_statistical_anomalies(df, value_column, z_threshold,
\* iqr_multiplier): the flags of the present values
DetectStatisticalOn(sklearn, data, h, m) ==
    LET v  == DropNa(data)
        st == Stats(v)
    IN  [NoDetResult(sklearn) EXCEPT
            !.op = "detect_statistical_anomalies", !.data = data,
            !.total_points = Len(v), !.valid_points = Len(v),
            !.z_threshold = h, !.iqr_multiplier = m,
            !.detailed =
                [k \in 1..Len(v) |->
                    [value          |-> v[k],
                     is_z_anomaly   |-> ZAnomalyAt(st, v[k], h),
                     is_iqr_anomaly |-> IqrAnomalyAt(st, v[k], m)]]]

DetectStatistical(data, h, m) ==
    /\ det.op = "none"
    /\ det' = DetectStatisticalOn(det.sklearn, data, h, m)
    /\ UNCHANGED <<inst, bundle, call, cached, req, mgr>>

\* POST /enviapi/detect-anomalies: whatever detect_anomalies returns goes
\* out as {"success": True, "results": ...}; an exception becomes HTTP 500
DetectAnomaliesEndpointOn(sklearn, data, param_type, mlRaises, m) ==
    LET r == DetectAllOn(sklearn, data, param_type, mlRaises, m)
    IN  [r EXCEPT !.op = "detect_anomalies_endpoint",
                  !.success = ~r.raised]

DetectAnomaliesEndpoint(data, param_type, mlRaises, m) ==
    /\ det.op = "none"
    /\ det' = DetectAnomaliesEndpointOn(det.sklearn, data, param_type,
                                        mlRaises, m)
    /\ UNCHANGED <<inst, bundle, call, cached, req, mgr>>

\* the caller takes the result
DetectReturn ==
    /\ det.op # "none"
    /\ det' = NoDetResult(det.sklearn)
    /\ UNCHANGED <<inst, bundle, call, cached, req, mgr>>

\* SKLEARN_AVAILABLE is fixed at import
InitAnomaly ==
    /\ inst = NewInstance("enhanced", 1)
    /\ bundle = NoBundle
    /\ call = NoCall
    /\ det \in {NoDetResult(sk) : sk \in BOOLEAN}
    /\ cached = NoCache
    /\ req = NoReq
    /\ mgr = NoManager

NextAnomaly ==
    \/ \E data \in EndpointSeries, pt \in ParamTypes, mlRaises \in BOOLEAN,
          m \in MLOutcomes : DetectAll(data, pt, mlRaises, m)
    \/ \E data \in EndpointSeries, pt \in ParamTypes, mlRaises \in BOOLEAN,
          m \in MLOutcomes : DetectAnomaliesEndpoint(data, pt, mlRaises, m)
    \/ \E val \in 0..MaxConc, pt \in ParamTypes : DetectDomain(val, pt)
    \/ \E data \in AnomSeries, h \in ZThresholds, m \in IqrMultipliers :
          DetectStatistical(data, h, m)
    \/ DetectReturn

SpecAnomaly == InitAnomaly /\ [][NextAnomaly]_vars

\* the worked example: 200 hourly PM2.5 values within 10..20, hour 150
\* (counted from 0) replaced by 400
ExampleSeries ==
    {[i \in 1..200 |-> IF i = 151 THEN 400 ELSE 10 + ((a * i + c) % m)] :
        a \in {1, 3}, c \in {0, 5}, m \in {1, 2, 3, 5, 6, 7, 10, 11}}

NextExample ==
    \/ \E data \in ExampleSeries, mlRaises \in BOOLEAN, m \in MLOutcomes :
          DetectAll(data, "PM25", mlRaises, m)
    \/ DetectReturn

SpecExample == InitAnomaly /\ [][NextExample]_vars

-----------------------------------------------------------------------------
(* Two requests sharing the cached model                                   *)
(*                                                                         *)
(* Each request obtains the model from ModelManager.load_model and runs    *)
(* fill_gaps on its own series; the steps of the two calls interleave.     *)

Requests == {1, 2}

\* model_exists: the three artifacts are on disk
ModelExists(b) == b.keras.exists /\ b.scaler.exists /\ b.metadata.exists

\* ModelManager.load_model(parameter, sequence_length): the cached instance
\* if there is one, else a new instance loaded from disk and cached, None
\* when there is no bundle or loading raises
ManagerLoadModel(c, b, L) ==
    IF c.loaded THEN [ok |-> TRUE, cache |-> c]
    ELSE IF ~ModelExists(b) THEN [ok |-> FALSE, cache |-> c]
    ELSE LET r == LoadModelOn(NewInstance("enhanced", L), b)
         IN  IF r.ok THEN [ok |-> TRUE,
                           cache |-> [loaded |-> TRUE, inst |-> r.inst]]
             ELSE [ok |-> FALSE, cache |-> c]

NewRequest(s, L) ==
    [pc |-> "load", series |-> s, L |-> L, X |-> <<>>, gaps |-> <<>>,
     scaled_pred |-> <<>>, predictions |-> <<>>, rows |-> <<>>]

\* series the two requests bring: full length, at least one observation
ConcSeries ==
    {s \in AllSeries : Len(s) = MaxLen /\ \E k \in 1..Len(s) : ~IsNa(s[k])}

\* manager.load_model(...) of request r
ReqLoad(r) ==
    /\ req[r].pc = "load"
    /\ LET m == ManagerLoadModel(cached, bundle, req[r].L)
       IN  /\ cached' = m.cache
           /\ req' = [req EXCEPT ![r].pc = IF m.ok THEN "prepare"
                                           ELSE "failed"]
    /\ UNCHANGED <<inst, bundle, call, det, mgr>>

\* fill_gaps of request r, line 329: prepare_training_data on the shared
\* instance, which refits its scaler
ReqPrepare(r) ==
    /\ req[r].pc = "prepare"
    /\ LET p == PrepareTrainingData("enhanced", req[r].L, req[r].series)
       IN  /\ cached' = [cached EXCEPT !.inst.scaler = p.scaler]
           /\ req' = [req EXCEPT ![r].pc = "predict", ![r].X = p.X,
                                 ![r].gaps = p.gaps]
    /\ UNCHANGED <<inst, bundle, call, det, mgr>>

\* predict of request r, line 237: the network on the request's windows
ReqPredict(r) ==
    /\ req[r].pc = "predict"
    /\ req' = [req EXCEPT
                 ![r].pc = IF Len(req[r].X) = 0 \/ ~InputFits(cached.inst)
                           THEN "failed" ELSE "inverse",
                 ![r].scaled_pred =
                     [k \in 1..Len(req[r].X) |->
                         Net(cached.inst.model.w, req[r].X[k])]]
    /\ UNCHANGED <<inst, bundle, call, det, cached, mgr>>

\* predict of request r, lines 240-242: inverse_transform with the scaler
\* the shared instance holds now
ReqInverse(r) ==
    /\ req[r].pc = "inverse"
    /\ req' = [req EXCEPT
                 ![r].pc = "assemble",
                 ![r].predictions =
                     [k \in 1..Len(req[r].scaled_pred) |->
                         ScalerInverse(cached.inst.scaler,
                                       req[r].scaled_pred[k])]]
    /\ UNCHANGED <<inst, bundle, call, det, cached, mgr>>

\* fill_gaps of request r, lines 351-369: the result rows
ReqAssemble(r) ==
    /\ req[r].pc = "assemble"
    /\ req' = [req EXCEPT
                 ![r].pc = "done",
                 ![r].rows = ResultRows(req[r].series, req[r].L,
                                        req[r].gaps, req[r].predictions)]
    /\ UNCHANGED <<inst, bundle, call, det, cached, mgr>>

\* a bundle is on disk, nothing is cached, and both requests are about to
\* call the manager with the same parameter and sequence_length
InitConc ==
    /\ inst = NewInstance("enhanced", 1)
    /\ call = NoCall
    /\ det = NoDet
    /\ cached = NoCache
    /\ mgr = NoManager
    /\ \E L \in SeqLens :
          /\ bundle \in {SavedBundle(w, 0, MaxVal, L) : w \in Weights}
          /\ req \in [Requests -> {NewRequest(s, L) : s \in ConcSeries}]

NextConc ==
    \E r \in Requests :
        \/ ReqLoad(r)
        \/ ReqPrepare(r)
        \/ ReqPredict(r)
        \/ ReqInverse(r)
        \/ ReqAssemble(r)

SpecConc == InitConc /\ [][NextConc]_vars

-----------------------------------------------------------------------------
(* ModelManager and the training script                                    *)

\* the parameters of EnhancedLSTMModel.train after self, in order, and the
\* ones without a default
TrainParameters ==
    <<"X_train", "y_train", "X_val", "y_val", "epochs", "batch_size",
      "verbose">>

TrainRequired == {"X_train", "y_train", "X_val", "y_val"}

\* model.train(data, value_column=..., epochs=..., batch_size=...,
\* validation_split=0.2) in train_and_save_model
ManagerTrainCall ==
    [positional |-> <<"data">>,
     keywords   |-> {"value_column", "epochs", "batch_size",
                     "validation_split"}]

\* Python's binding of a call to a signature: TypeError on a keyword the
\* function does not have, on a parameter given twice, or on a required
\* parameter left without a value
CallBinds(params, required, c) ==
    LET names == {params[k] : k \in 1..Len(params)}
        byPos == {params[k] : k \in 1..Len(c.positional)}
    IN  /\ Len(c.positional) <= Len(params)
        /\ c.keywords \subseteq names
        /\ c.keywords \cap byPos = {}
        /\ required \subseteq (byPos \cup c.keywords)

\* (mutant) the new instance put in the cache before it is trained
TrainAndSaveModelCacheFirst(c, b, L, s, w) ==
    [ok |-> FALSE, bundle |-> b,
     cache |-> [loaded |-> TRUE, inst |-> NewInstance("enhanced", L)],
     model |-> NewInstance("enhanced", L)]

\* train_and_save_model on the cache entry c of its key, the disk holding
\* bundle b: a new instance, model.train(...), the metadata update,
\* save_model, then the cache.  The call of train raises when it does not
\* bind, before anything is written.
TrainAndSaveModelOn(c, b, L, s, w) ==
    LET new == NewInstance("enhanced", L)
        p   == PrepareTrainingData("enhanced", L, s)
        tr  == Train([new EXCEPT !.scaler = p.scaler], p, w)
        sv  == SaveModelOn(tr.inst, b)
    IN  IF ~CallBinds(TrainParameters, TrainRequired, ManagerTrainCall)
        THEN [ok |-> FALSE, bundle |-> b, cache |-> c, model |-> new]
        ELSE IF ~tr.ok
        THEN [ok |-> FALSE, bundle |-> b, cache |-> c, model |-> tr.inst]
        ELSE IF ~sv.ok
        THEN [ok |-> FALSE, bundle |-> sv.bundle, cache |-> c,
              model |-> tr.inst]
        ELSE [ok |-> TRUE, bundle |-> sv.bundle,
              cache |-> [loaded |-> TRUE, inst |-> tr.inst],
              model |-> tr.inst]

\* get_or_train_model: the loaded model unless force_retrain, else (or when
\* there is none to load) train_and_save_model on the training data, which
\* must be given
GetOrTrainModelOn(c, b, L, force, hasData, s, w) ==
    LET ld == IF force THEN [ok |-> FALSE, cache |-> c]
              ELSE ManagerLoadModel(c, b, L)
    IN  IF ld.ok
        THEN [ok |-> TRUE, bundle |-> b, cache |-> ld.cache,
              model |-> ld.cache.inst]
        ELSE IF ~hasData
        THEN [ok |-> FALSE, bundle |-> b, cache |-> ld.cache,
              model |-> NewInstance("enhanced", L)]
        ELSE TrainAndSaveModelOn(ld.cache, b, L, s, w)

\* sequence_length=24 of the training scripts, as the shortest length of
\* the model
ScriptSeqLen == SetMin(SeqLens)

\* train_model.py: a new instance, prepare_training_data, the 90/10 split,
\* train, then save_model; nothing is saved when training raises
TrainScript(s, w) ==
    /\ mgr.op.name = "none"
    /\ LET new == NewInstance("enhanced", ScriptSeqLen)
           p   == PrepareTrainingData("enhanced", ScriptSeqLen, s)
           tr  == Train([new EXCEPT !.scaler = p.scaler], p, w)
       IN  /\ inst' = tr.inst
           /\ bundle' = IF tr.ok THEN SaveModelOn(tr.inst, bundle).bundle
                        ELSE bundle
           /\ mgr' = [mgr EXCEPT !.op = [NoManagerOp EXCEPT
                          !.name = "train_script", !.ok = tr.ok,
                          !.L = ScriptSeqLen, !.model = tr.inst]]
    /\ UNCHANGED <<call, det, cached, req>>

\* load_model on a new instance of sequence_length L, as a request does
LoadFresh(L) ==
    /\ mgr.op.name = "none"
    /\ LET r == LoadModelOn(NewInstance("enhanced", L), bundle)
       IN  mgr' = [mgr EXCEPT !.op = [NoManagerOp EXCEPT
                       !.name = "load_model", !.ok = r.ok, !.L = L,
                       !.model = r.inst]]
    /\ UNCHANGED <<inst, bundle, call, det, cached, req>>

\* manager.load_model(parameter, sequence_length)
MgrLoadModel(L) ==
    /\ mgr.op.name = "none"
    /\ LET r == ManagerLoadModel(mgr.cache[L], bundle, L)
       IN  mgr' = [cache |-> [mgr.cache EXCEPT ![L] = r.cache],
                   op |-> [NoManagerOp EXCEPT
                       !.name = "manager_load_model", !.ok = r.ok, !.L = L,
                       !.model = r.cache.inst]]
    /\ UNCHANGED <<inst, bundle, call, det, cached, req>>

\* manager.train_and_save_model(data, parameter, sequence_length=L)
MgrTrainAndSaveModel(L, s, w) ==
    /\ mgr.op.name = "none"
    /\ LET r == TrainAndSaveModelOn(mgr.cache[L], bundle, L, s, w)
       IN  /\ bundle' = r.bundle
           /\ mgr' = [cache |-> [mgr.cache EXCEPT ![L] = r.cache],
                      op |-> [NoManagerOp EXCEPT
                          !.name = "train_and_save_model", !.ok = r.ok,
                          !.L = L, !.model = r.model]]
    /\ UNCHANGED <<inst, call, det, cached, req>>

\* manager.get_or_train_model(parameter, training_data, L, force_retrain)
MgrGetOrTrainModel(L, force, hasData, s, w) ==
    /\ mgr.op.name = "none"
    /\ LET r == GetOrTrainModelOn(mgr.cache[L], bundle, L, force, hasData,
                                  s, w)
       IN  /\ bundle' = r.bundle
           /\ mgr' = [cache |-> [mgr.cache EXCEPT ![L] = r.cache],
                      op |-> [NoManagerOp EXCEPT
                          !.name = "get_or_train_model", !.ok = r.ok,
                          !.L = L, !.force = force, !.hasData = hasData,
                          !.data = IF hasData THEN s ELSE <<>>,
                          !.existed = ModelExists(bundle),
                          !.model = r.model]]
    /\ UNCHANGED <<inst, call, det, cached, req>>

\* manager.delete_model(parameter): False without a bundle; else the three
\* files are unlinked and every cache key of the parameter is dropped
MgrDeleteModel ==
    /\ mgr.op.name = "none"
    /\ IF ~ModelExists(bundle)
       THEN /\ mgr' = [mgr EXCEPT !.op = [NoManagerOp EXCEPT
                           !.name = "delete_model", !.ok = FALSE]]
            /\ UNCHANGED bundle
       ELSE /\ bundle' = NoBundle
            /\ mgr' = [cache |-> [L \in SeqLens |-> NoCache],
                       op |-> [NoManagerOp EXCEPT !.name = "delete_model"]]
    /\ UNCHANGED <<inst, call, det, cached, req>>

\* the caller takes the result
MgrReturn ==
    /\ mgr.op.name # "none"
    /\ mgr' = [mgr EXCEPT !.op = NoManagerOp]
    /\ UNCHANGED <<inst, bundle, call, det, cached, req>>

\* series the training script and the manager are given: MaxLen values,
\* constant (k = 0) or alternating (k = 1) between 0 and MaxVal, the g-th
\* one missing (g = 0: none)
ManagerSeries ==
    {[i \in 1..MaxLen |-> IF i = g THEN NaN
                          ELSE MaxVal * ((v + k * i) % 2)] :
        g \in 0..MaxLen, v \in 0..1, k \in 0..1}

\* the sequence lengths the manager is asked for: the scripts' and another
ManagerSeqLens == {ScriptSeqLen, MaxSeqLen}

\* the weights a training run of the script ends in
ManagerWeights == {0, MaxW}

InitManager ==
    /\ inst = NewInstance("enhanced", ScriptSeqLen)
    /\ bundle = NoBundle
    /\ call = NoCall
    /\ det = NoDet
    /\ cached = NoCache
    /\ req = NoReq
    /\ mgr = NoManager

NextManager ==
    \/ \E s \in ManagerSeries, w \in ManagerWeights : TrainScript(s, w)
    \/ \E L \in ManagerSeqLens : LoadFresh(L)
    \/ \E L \in ManagerSeqLens : MgrLoadModel(L)
    \/ \E L \in ManagerSeqLens, s \in ManagerSeries, w \in ManagerWeights :
          MgrTrainAndSaveModel(L, s, w)
    \/ \E L \in ManagerSeqLens, force \in BOOLEAN, hasData \in BOOLEAN,
          s \in ManagerSeries, w \in ManagerWeights :
          MgrGetOrTrainModel(L, force, hasData, s, w)
    \/ MgrDeleteModel
    \/ MgrReturn

SpecManager == InitManager /\ [][NextManager]_vars

-----------------------------------------------------------------------------
(* save_model write by write, with loads in between                        *)

\* the k-th write of save_model by instance i on the disk holding bundle
\* b: the network, the scaler, the metadata, each file replaced in place
SaveWriteOn(i, b, k) ==
    IF k = 1 THEN [b EXCEPT !.keras = File(i.model)]
    ELSE IF k = 2 THEN [b EXCEPT !.scaler = File(ScalerToFile(i.scaler))]
    ELSE [b EXCEPT !.metadata = File(MetadataToJson(i.metadata))]

\* train_model.py up to save_model: a new instance,
\* prepare_training_data on series s, and the training that ends in
\* weights w
ScriptRun(s, w) ==
    LET new == NewInstance("enhanced", ScriptSeqLen)
        p   == PrepareTrainingData("enhanced", ScriptSeqLen, s)
    IN  Train([new EXCEPT !.scaler = p.scaler], p, w)

\* the script enters save_model when its training succeeded
SaveStart(s, w) ==
    /\ call.op = "none"
    /\ LET tr == ScriptRun(s, w)
       IN  /\ tr.ok
           /\ inst' = tr.inst
           /\ call' = [NoCall EXCEPT !.op = "save_model",
                          !.L = ScriptSeqLen, !.trained = TRUE]
    /\ UNCHANGED <<bundle, det, cached, req, mgr>>

\* the next of the three writes of save_model
SaveWrite ==
    /\ call.op = "save_model"
    /\ call.written < 3
    /\ bundle' = SaveWriteOn(inst, bundle, call.written + 1)
    /\ call' = [call EXCEPT !.written = @ + 1]
    /\ UNCHANGED <<inst, det, cached, req, mgr>>

\* save_model returns after its third write
SaveReturn ==
    /\ call.op = "save_model"
    /\ call.written = 3
    /\ call' = NoCall
    /\ UNCHANGED <<inst, bundle, det, cached, req, mgr>>

\* the process is stopped between two writes of save_model; the files
\* written so far stay
SaveInterrupted ==
    /\ call.op = "save_model"
    /\ call.written \in 1..2
    /\ call' = NoCall
    /\ UNCHANGED <<inst, bundle, det, cached, req, mgr>>

\* the series the script trains on here: those of the manager with no
\* value missing
SaveSeries == {s \in ManagerSeries : NGaps(s) = 0}

\* a load can come at any moment, also between two writes
NextSave ==
    \/ \E s \in SaveSeries, w \in ManagerWeights : SaveStart(s, w)
    \/ SaveWrite
    \/ SaveReturn
    \/ SaveInterrupted
    \/ \E L \in ManagerSeqLens : LoadFresh(L)
    \/ MgrReturn

SpecSave == InitManager /\ [][NextSave]_vars

-----------------------------------------------------------------------------
(* The manager with several parameters                                     *)
(*                                                                         *)
(* A parameter name, a model name and a cache key are sequences of         *)
(* characters; the disk holds one bundle per model name and the cache one  *)
(* entry per key.                                                          *)

\* the fixed head of every model name
NamePrefix == <<"enhanced_lstm_">>

\* str.lower() of one character
LowerChar(c) ==
    CASE c = "C" -> "c" [] c = "M" -> "m" [] c = "N" -> "n"
      [] c = "O" -> "o" [] c = "P" -> "p" [] c = "S" -> "s"
      [] OTHER -> c

\* parameter.lower()
Lower(p) == [k \in 1..Len(p) |-> LowerChar(p[k])]

\* ModelManager.model_registry
ModelRegistry ==
    (<<"P", "M", "2", "5">> :> NamePrefix \o <<"p", "m", "2", "5">>)
    @@ (<<"P", "M", "1", "0">> :> NamePrefix \o <<"p", "m", "1", "0">>)
    @@ (<<"O", "3">> :> NamePrefix \o <<"o", "3">>)
    @@ (<<"C", "O">> :> NamePrefix \o <<"c", "o">>)
    @@ (<<"N", "O", "2">> :> NamePrefix \o <<"n", "o", "2">>)
    @@ (<<"S", "O", "2">> :> NamePrefix \o <<"s", "o", "2">>)

\* get_model_path: the registry's name, else the lower-cased parameter
\* behind the prefix
ModelName(p) ==
    IF p \in DOMAIN ModelRegistry THEN ModelRegistry[p]
    ELSE NamePrefix \o Lower(p)

\* str(n) of a positive integer
RECURSIVE Digits(_)
Digits(n) ==
    LET d == <<"0", "1", "2", "3", "4", "5", "6", "7", "8", "9">>
    IN  IF n < 10 THEN <<d[n + 1]>>
        ELSE Digits(n \div 10) \o <<d[(n % 10) + 1]>>

\* cache_key = f"{parameter}_{sequence_length}"
CacheKey(p, L) == p \o <<"_">> \o Digits(L)

\* k.startswith(parameter)
StartsWith(k, p) == Len(p) <= Len(k) /\ SubSeq(k, 1, Len(p)) = p

\* the parameters the manager is called with: two of the registry and
\* nitric oxide, which is measured but not in the registry
DeleteParams == {<<"N", "O">>, <<"N", "O", "2">>, <<"O", "3">>}

DeleteNames == {ModelName(p) : p \in DeleteParams}

DeleteKeys == {CacheKey(p, L) : p \in DeleteParams, L \in ManagerSeqLens}

\* a training run saves its bundle under the model name of parameter p
SaveBundleFor(p, s, w) ==
    /\ mgr.op.name = "none"
    /\ LET tr == ScriptRun(s, w)
       IN  /\ tr.ok
           /\ bundle' = [bundle EXCEPT ![ModelName(p)] =
                            SaveModelOn(tr.inst, @).bundle]
           /\ mgr' = [mgr EXCEPT !.op = [NoManagerOp EXCEPT
                          !.name = "save_model", !.parameter = p,
                          !.L = ScriptSeqLen, !.model = tr.inst]]
    /\ UNCHANGED <<inst, call, det, cached, req>>

\* manager.load_model(parameter, sequence_length)
LoadModelFor(p, L) ==
    /\ mgr.op.name = "none"
    /\ LET key == CacheKey(p, L)
           r   == ManagerLoadModel(mgr.cache[key], bundle[ModelName(p)], L)
       IN  mgr' = [cache |-> [mgr.cache EXCEPT ![key] = r.cache],
                   op |-> [NoManagerOp EXCEPT
                       !.name = "manager_load_model", !.ok = r.ok,
                       !.parameter = p, !.L = L, !.model = r.cache.inst]]
    /\ UNCHANGED <<inst, bundle, call, det, cached, req>>

\* manager.delete_model(parameter): False without a bundle; else the three
\* files of the parameter's model name are unlinked and every cache key
\* that starts with the parameter is dropped
DeleteModelOn(c, b, p) ==
    IF ~ModelExists(b[ModelName(p)]) THEN [ok |-> FALSE, cache |-> c,
                                           bundle |-> b]
    ELSE [ok     |-> TRUE,
          bundle |-> [b EXCEPT ![ModelName(p)] = NoBundle],
          cache  |-> [k \in DOMAIN c |->
                         IF StartsWith(k, p) THEN NoCache ELSE c[k]]]

DeleteModelFor(p) ==
    /\ mgr.op.name = "none"
    /\ LET r == DeleteModelOn(mgr.cache, bundle, p)
       IN  /\ bundle' = r.bundle
           /\ mgr' = [cache |-> r.cache,
                      op |-> [NoManagerOp EXCEPT !.name = "delete_model",
                                 !.ok = r.ok, !.parameter = p]]
    /\ UNCHANGED <<inst, call, det, cached, req>>

\* the training series that start at 0 and reach MaxVal
DeleteSeries ==
    {s \in SaveSeries : s[1] = 0 /\ \E k \in 1..Len(s) : s[k] = MaxVal}

InitDelete ==
    /\ inst = NewInstance("enhanced", ScriptSeqLen)
    /\ bundle = [n \in DeleteNames |-> NoBundle]
    /\ call = NoCall
    /\ det = NoDet
    /\ cached = NoCache
    /\ req = NoReq
    /\ mgr = [cache |-> [k \in DeleteKeys |-> NoCache], op |-> NoManagerOp]

NextDelete ==
    \/ \E p \in DeleteParams, s \in DeleteSeries, w \in ManagerWeights :
          SaveBundleFor(p, s, w)
    \/ \E p \in DeleteParams, L \in ManagerSeqLens : LoadModelFor(p, L)
    \/ \E p \in DeleteParams : DeleteModelFor(p)
    \/ MgrReturn

SpecDelete == InitDelete /\ [][NextDelete]_vars

-----------------------------------------------------------------------------
(* The chatbot's classification of a value                                 *)
(*                                                                         *)
(* A value is a float; it is held here as a whole number of 1/ChatDenom,   *)
(* so that values between two integers occur.                              *)

\* the values given are k / ChatDenom for k in 0..MaxChat * ChatDenom
ChatDenom == 2

MaxChat == 501

\* AirQualityChatbot.aqi_thresholds, each table in the order of the dict
AqiThresholds ==
    [PM25 |->
        <<[level |-> "good", min_val |-> 0, max_val |-> 15],
          [level |-> "moderate", min_val |-> 16, max_val |-> 35],
          [level |-> "unhealthy_sensitive", min_val |-> 36, max_val |-> 55],
          [level |-> "unhealthy", min_val |-> 56, max_val |-> 150],
          [level |-> "very_unhealthy", min_val |-> 151, max_val |-> 250],
          [level |-> "hazardous", min_val |-> 251, max_val |-> 500]>>]

\* classify_aqi_level(value, param) for value = v / ChatDenom: the first
\* level of the table with min_val <= value <= max_val; when no level
\* matches, 'hazardous' above 250 and 'good' otherwise
ClassifyAqiLevel(v, param) ==
    LET t   == AqiThresholds[IF param \in DOMAIN AqiThresholds THEN param
                             ELSE "PM25"]
        hit == {k \in 1..Len(t) : /\ t[k].min_val * ChatDenom <= v
                                  /\ v <= t[k].max_val * ChatDenom}
    IN  IF hit # {} THEN t[SetMin(hit)].level
        ELSE IF v > 250 * ChatDenom THEN "hazardous"
        ELSE "good"

ChatValues == 0..(MaxChat * ChatDenom)

\* the parameters the chatbot is asked about: one with a table, one without
ChatParams == {"PM25", "PM10"}

\* chatbot.classify_aqi_level(value, param)
ClassifyCall(v, param) ==
    /\ call.op = "none"
    /\ call' = [NoCall EXCEPT !.op = "classify_aqi_level", !.value = v,
                              !.param = param,
                              !.level = ClassifyAqiLevel(v, param)]
    /\ UNCHANGED <<inst, bundle, det, cached, req, mgr>>

NextChatbot ==
    \/ \E v \in ChatValues, param \in ChatParams : ClassifyCall(v, param)
    \/ Return

SpecChatbot == InitManager /\ [][NextChatbot]_vars

-----------------------------------------------------------------------------
(* Claims on gap filling                                                   *)

Range(f) == {f[k] : k \in 1..Len(f)}

FillReturned == call.op = "fill_gaps" /\ call.ok

\* C1: after fill_gaps, of either class, every row whose original value is
\* present has filled_value equal to that value, whatever was predicted
C1_ObservationsKept ==
    FillReturned =>
        \A r \in 1..Len(call.input) :
            ~IsNa(call.input[r]) =>
                call.rows[r].filled_value = call.input[r]

\* a fill that predicted, for a present row, a value other than the
\* observed one, and filled a gap elsewhere
C1_Witness ==
    /\ FillReturned
    /\ \E r \in 1..Len(call.input) :
          /\ ~IsNa(call.input[r])
          /\ ~IsNa(call.rows[r].predicted_value)
          /\ call.rows[r].predicted_value # call.input[r]
    /\ \E r \in 1..Len(call.input) : call.rows[r].was_gap

\* C2: for a series longer than sequence_length with at least one present
\* value, every output row of fill_gaps has a non-null filled_value
C2_OutputDense ==
    (/\ FillReturned
     /\ Len(call.input) > call.L
     /\ \E r \in 1..Len(call.input) : ~IsNa(call.input[r]))
    => \A r \in 1..Len(call.input) : ~IsNa(call.rows[r].filled_value)

\* C7: N rows and sequence length L give max(N - L, 0) windows; the window
\* of target row i is rows i-L .. i-1 in order, its target is row i, and
\* its gap tag is the missingness of row i alone
C7_Windowing ==
    call.op \in {"prepare", "fill_gaps"} =>
        LET N == Len(call.input)
            L == call.L
        IN  /\ Len(call.X) = IF N > L THEN N - L ELSE 0
            /\ Len(call.y) = Len(call.X)
            /\ Len(call.gaps) = Len(call.X)
            /\ \A i \in (L + 1)..N :
                  /\ Len(call.X[i - L]) = L
                  /\ \A j \in 1..L :
                        call.X[i - L][j] = call.scaled[i - L + j - 1]
                  /\ call.y[i - L] = call.scaled[i]
                  /\ call.gaps[i - L] = IsNa(call.input[i])

\* the example of the claim, 30 rows with sequence length 24, with a
\* missing value inside a window whose own target is present
C7_Witness ==
    /\ call.op = "prepare"
    /\ Len(call.input) = 30
    /\ call.L = DefaultSeqLen
    /\ Len(call.X) = 6
    /\ \E k \in 1..Len(call.X) :
          /\ ~call.gaps[k]
          /\ \E j \in 1..call.L : IsNa(call.input[k + j - 1])

\* C8: the split of EnhancedLSTMModel.fill_gaps uses only windows whose
\* target is no gap; of these n, in temporal order, the first floor(0.9 n)
\* train and the rest validate: disjoint, covering, training before
\* validation
C8_TrainingSplit ==
    (call.op = "fill_gaps" /\ call.split /\ inst.kind = "enhanced") =>
        LET elig == {k \in 1..Len(call.gaps) : ~call.gaps[k]}
            n    == Cardinality(elig)
        IN  /\ Len(call.train) = (9 * n) \div 10
            /\ Len(call.train) + Len(call.val) = n
            /\ Range(call.train) \cap Range(call.val) = {}
            /\ Range(call.train) \cup Range(call.val) = elig
            /\ \A a \in 1..Len(call.train), b \in 1..Len(call.train) :
                  a < b => call.train[a] < call.train[b]
            /\ \A a \in 1..Len(call.val), b \in 1..Len(call.val) :
                  a < b => call.val[a] < call.val[b]
            /\ \A a \in Range(call.train), b \in Range(call.val) : a < b

\* a split with gap targets left out and more than one validation window
C8_Witness ==
    /\ call.op = "fill_gaps" /\ call.split /\ inst.kind = "enhanced"
    /\ call.trained
    /\ \E k \in 1..Len(call.gaps) : call.gaps[k]
    /\ Len(call.val) >= 2
    /\ Len(call.train) >= 10

\* a network that finished training or was loaded
Ready(i) == i.model.fitted

\* C9: once an EnhancedLSTMModel is trained or loaded, fill_gaps and
\* prepare_training_data change neither its scaler parameters, its
\* weights nor its metadata
C9_ModelImmutable ==
    [][(/\ inst.kind = "enhanced"
        /\ Ready(inst)
        /\ call'.op \in {"prepare", "fill_gaps"})
       => (/\ inst'.scaler = inst.scaler
           /\ inst'.model = inst.model
           /\ inst'.metadata = inst.metadata)]_vars

-----------------------------------------------------------------------------
(* Claims on anomaly detection                                             *)

DetectReturned == det.op = "detect_all" /\ ~det.error

Points == 1..Len(det.detailed)

\* C3: combined_score = 0.3 z + 0.3 IQR + 0.2 hazardous + 0.2 ML, the ML
\* term left out (not renormalised) when the ML detector did not run, so
\* the score lies in [0, 0.8] without ML and in [0, 1.0] with it
C3_ScoreFusion ==
    DetectReturned =>
        \A k \in Points :
            LET p == det.detailed[k]
                stat == (IF p.is_z_anomaly THEN 3 ELSE 0)
                        + (IF p.is_iqr_anomaly THEN 3 ELSE 0)
                        + (IF p.is_hazardous THEN 2 ELSE 0)
            IN  /\ det.ml_ran =>
                      /\ p.combined_score
                            = stat + (IF p.is_ml_anomaly THEN 2 ELSE 0)
                      /\ p.combined_score \in 0..10
                /\ ~det.ml_ran =>
                      /\ p.combined_score = stat
                      /\ p.combined_score \in 0..8

\* a call without ML that scores a point at the top of its range, 0.8
C3_Witness ==
    /\ DetectReturned
    /\ ~det.ml_ran
    /\ \E k \in Points : det.detailed[k].combined_score = 8

\* C4: is_anomaly iff combined_score > 0.5; both statistical flags always
\* make an anomaly, the domain flag alone or the ML flag alone never does,
\* and a score of exactly 0.5 is no anomaly
C4_Verdict ==
    DetectReturned =>
        \A k \in Points :
            LET p == det.detailed[k]
            IN  /\ p.is_anomaly <=> p.combined_score > 5
                /\ (p.is_z_anomaly /\ p.is_iqr_anomaly) => p.is_anomaly
                /\ (/\ ~p.is_z_anomaly /\ ~p.is_iqr_anomaly
                    /\ ~(p.is_hazardous /\ p.is_ml_anomaly))
                   => ~p.is_anomaly
                /\ p.combined_score = 5 => ~p.is_anomaly

\* a point with one statistical flag and the domain flag: exactly 0.5
C4_Witness ==
    /\ DetectReturned
    /\ \E k \in Points :
          /\ det.detailed[k].is_z_anomaly
          /\ ~det.detailed[k].is_iqr_anomaly
          /\ det.detailed[k].is_hazardous
          /\ det.detailed[k].combined_score = 5
          /\ ~det.detailed[k].is_anomaly

BandOrder ==
    <<"safe", "moderate", "unhealthy_sensitive", "unhealthy",
      "very_unhealthy", "hazardous">>

\* the lower bound of the band at position b of BandOrder, b >= 2
LowerBound(param_type, b) ==
    LET th == Thresholds(param_type)
    IN  <<0, th.moderate, th.unhealthy_sensitive, th.unhealthy,
          th.very_unhealthy, th.hazardous>>[b]

\* C5: every present value gets the highest band whose lower bound it
\* meets or exceeds (a value on a threshold gets the more severe band),
\* 'safe' when it meets none; is_hazardous iff the band is unhealthy,
\* very_unhealthy or hazardous
C5_DomainBands ==
    (det.op \in {"detect_all", "domain"} /\ ~det.error) =>
        \A k \in Points :
            LET p   == det.detailed[k]
                met == {b \in 2..6 :
                           p.value >= LowerBound(det.param_type, b)}
                top == IF met = {} THEN 1 ELSE SetMax(met)
            IN  /\ p.health_level = BandOrder[top]
                /\ p.is_hazardous <=>
                      p.health_level \in
                          {"unhealthy", "very_unhealthy", "hazardous"}

\* a value exactly on the hazardous threshold of its table
C5_Witness ==
    /\ det.op = "domain"
    /\ det.param_type = "PM10"
    /\ det.detailed[1].value = 600
    /\ det.detailed[1].health_level = "hazardous"

\* C6: in the worked example detect_all reports, for the injected point,
\* z-flag and IQR-flag true, health_level 'hazardous', is_hazardous true,
\* combined_score >= 0.8 and is_anomaly true
C6_ExampleSpike ==
    DetectReturned =>
        LET p == det.detailed[151]
        IN  /\ p.value = 400
            /\ p.is_z_anomaly
            /\ p.is_iqr_anomaly
            /\ p.health_level = "hazardous"
            /\ p.is_hazardous
            /\ p.combined_score >= 8
            /\ p.is_anomaly

\* what detect_all does report for the injected point: everything claimed
\* but the band, which is 'very_unhealthy' (400 is below hazardous = 500)
C6_ExampleSpikeAsCoded ==
    DetectReturned =>
        LET p == det.detailed[151]
        IN  /\ p.value = 400
            /\ p.is_z_anomaly
            /\ p.is_iqr_anomaly
            /\ p.health_level = "very_unhealthy"
            /\ p.is_hazardous
            /\ p.combined_score >= 8
            /\ p.is_anomaly

-----------------------------------------------------------------------------
(* Claims on the shared cached model                                       *)

\* what fill_gaps returns for series s when it runs alone on the model
\* loaded from the bundle
SoloRows(s, L) ==
    FillGapsOn(LoadModelOn(NewInstance("enhanced", L), bundle).inst,
               s, 0).call.rows

\* C10: two requests running fill_gaps on the same cached instance, their
\* steps interleaved in any order, each get the output they would get
\* running alone
C10_ConcurrentReadsSafe ==
    \A r \in Requests :
        req[r].pc = "done" =>
            req[r].rows = SoloRows(req[r].series, req[r].L)

\* C19: in the output of fill_gaps, of either class, predicted_value is
\* null on every record whose original value is present
C19_PredictedOnlyOnGaps ==
    FillReturned =>
        \A r \in 1..Len(call.rows) :
            ~IsNa(call.input[r]) => IsNa(call.rows[r].predicted_value)

\* C20: every window of a fill_gaps call that returns consists of rows at
\* consecutive hours, and its target is one hour after its last row
C20_WindowsOnHourlyGrid ==
    (FillReturned /\ call.index # <<>>)
    => \A k \in 1..Len(call.X) :
          \A j \in k..(k + call.L - 1) :
              call.index[j + 1] = call.index[j] + 1

-----------------------------------------------------------------------------
(* Claims on the ModelManager and on persistence                           *)

\* C15: an entry function given fewer than sequence_length + 1 records
\* fails and returns no output, whether or not a record is missing
C15_ShortSeriesRejected ==
    (/\ call.op \in {EntryName(k) : k \in Kinds}
     /\ Len(call.input) < call.L + 1)
    => (~call.ok /\ call.rows = <<>>)

\* C14: predict on an instance that holds no network (neither built by
\* training nor loaded), of either class, fails and returns no predictions,
\* whatever the windows
C14_PredictNeedsModel ==
    (call.op = "predict" /\ inst.model = NoModel)
    => (~call.ok /\ call.predictions = <<>>)

\* predict was called with windows on a new instance
C14_Witness ==
    /\ call.op = "predict"
    /\ inst.model = NoModel
    /\ inst.scaler = Unfitted
    /\ Len(call.X) > 0
    /\ ~call.ok

\* C11: a call of train_and_save_model, or of get_or_train_model, that
\* fails leaves the three bundle files on disk and every cache entry of the
\* manager exactly as they were before the call
C11_FailedTrainingKeepsBundle ==
    [][(/\ mgr.op.name = "none"
        /\ mgr'.op.name \in {"train_and_save_model", "get_or_train_model"}
        /\ ~mgr'.op.ok)
       => (bundle' = bundle /\ mgr'.cache = mgr.cache)]_vars

\* train_and_save_model has failed with a bundle on disk and a cached model
C11_Witness ==
    /\ mgr.op.name = "train_and_save_model"
    /\ ~mgr.op.ok
    /\ ModelExists(bundle)
    /\ \E L \in ManagerSeqLens : mgr.cache[L].loaded

\* the bundle on disk is what save_model on instance i writes
SavedFrom(i) == SaveModelOn(i, bundle) = [ok |-> TRUE, bundle |-> bundle]

ShapeAgrees(i) ==
    /\ i.model.input_length = i.sequence_length
    /\ i.metadata.sequence_length = i.sequence_length

\* C13: load_model never yields a model, returned or cached, whose
\* configured sequence_length differs from the one of the bundle it loaded
C13_ShapeMismatchRejected ==
    /\ \A L \in ManagerSeqLens :
          mgr.cache[L].loaded => ShapeAgrees(mgr.cache[L].inst)
    /\ (mgr.op.name \in {"load_model", "manager_load_model"} /\ mgr.op.ok)
          => ShapeAgrees(mgr.op.model)

-----------------------------------------------------------------------------
(* Claims on the degenerate inputs of anomaly detection                    *)

\* C16: an anomaly detection request whose input is empty, or holds no
\* valid value, ends in an error with no detector output and is never
\* answered as a success
C16_NoValidDataIsAnError ==
    (/\ det.op \in {"detect_all", "detect_anomalies_endpoint"}
     /\ DropNa(det.data) = <<>>)
    => /\ det.error \/ det.raised
       /\ det.detailed = <<>>
       /\ ~det.success

\* the valid values of the request are all the same value
AllIdentical(data) ==
    /\ DropNa(data) # <<>>
    /\ \A k \in 1..Len(DropNa(data)) : DropNa(data)[k] = DropNa(data)[1]

\* C17: when the valid values are all identical, detect_all completes, no
\* point is z-flagged and no combined_score holds the z-score term
C17_ZeroDeviation ==
    (det.op = "detect_all" /\ AllIdentical(det.data))
    => /\ ~det.raised /\ ~det.error
       /\ Len(det.detailed) = Len(DropNa(det.data))
       /\ \A k \in 1..Len(det.detailed) :
             /\ ~det.detailed[k].is_z_anomaly
             /\ det.detailed[k].combined_score =
                   3 * Bit(det.detailed[k].is_iqr_anomaly)
                   + 2 * Bit(det.detailed[k].is_hazardous)
                   + 2 * Bit(det.detailed[k].is_ml_anomaly)

\* detect_all has returned for more than MLFloor identical values (standard
\* deviation 0), the ML detector having run
C17_Witness ==
    /\ det.op = "detect_all"
    /\ AllIdentical(det.data)
    /\ Len(det.detailed) > MLFloor
    /\ det.ml_ran

\* C18: the ML detector is skipped, the statistical and domain results
\* still returned, below 50 valid points, and it is called (scikit-learn
\* being available) from 50 valid points on
C18_MLSampleFloor ==
    (det.op = "detect_all" /\ ~det.error /\ ~det.raised)
    => /\ det.valid_points < MLFloor
          => (~det.ml_ran /\ ~det.ml_error
              /\ Len(det.detailed) = det.valid_points)
       /\ (det.valid_points >= MLFloor /\ det.sklearn)
          => (det.ml_ran \/ det.ml_error)

-----------------------------------------------------------------------------
(* Claims on feature engineering                                           *)

PrepareReturned == call.op = "prepare"

\* the lag and rolling columns of one row of the frame
LagRoll(row) == <<row.PM25_lag, row.PM25_roll>>

\* C21: the lag and rolling features of row t are determined by the raw
\* values at rows 1..t: any series that agrees with the input on those rows
\* gives the same lag and rolling features at t, whatever comes later.
C21_FeatureCausality ==
    (PrepareReturned /\ inst.kind = "enhanced") =>
        \A t \in 1..Len(call.input) :
            \A s2 \in AllSeries :
                (/\ Len(s2) >= t
                 /\ \A j \in 1..t : s2[j] = call.input[j])
                => LagRoll(FeatureRows("enhanced", s2)[t])
                       = LagRoll(call.features[t])

\* C22: prepare_training_data returns one feature row per input row; the
\* raw value column is what came in, and has_gap is true exactly on the
\* rows whose raw value was missing, whatever the temporary fill put there.
C22_RowsAndMissingnessKept ==
    PrepareReturned =>
        /\ Len(call.features) = Len(call.input)
        /\ \A r \in 1..Len(call.input) :
              /\ call.features[r].value = call.input[r]
              /\ call.features[r].has_gap = IsNa(call.input[r])
              /\ call.has_gap[r] = IsNa(call.input[r])

\* a prepared frame with a missing row that the temporary fill gave a value
C22_Witness ==
    /\ PrepareReturned
    /\ \E r \in 1..Len(call.input) :
          /\ IsNa(call.input[r])
          /\ ~IsNa(call.features[r].PM25_filled_temp)
          /\ call.features[r].has_gap

-----------------------------------------------------------------------------
(* Claims on the monotonicity of the detectors                             *)

\* the position of a health level in the order of severity
Severity(level) == CHOOSE b \in 1..Len(BandOrder) : BandOrder[b] = level

\* C23: for each threshold table, the level of a value is never more
\* severe than the level of any larger value, and a value exactly on the
\* lower bound of a band is classified into that band.
C23_DomainMonotonic ==
    det.op = "domain" =>
        LET p == det.detailed[1]
        IN  /\ \A b \in p.value..MaxConc :
                  Severity(p.health_level)
                      <= Severity(HealthLevel(b, det.param_type))
            /\ \A k \in 2..Len(BandOrder) :
                  p.value = LowerBound(det.param_type, k)
                      => p.health_level = BandOrder[k]

\* a value on the lower bound of a middle band of the O3 table, with a
\* larger value in a more severe band
C23_Witness ==
    /\ det.op = "domain"
    /\ det.param_type = "O3"
    /\ det.detailed[1].value = 200
    /\ det.detailed[1].health_level = "unhealthy_sensitive"
    /\ Severity(HealthLevel(300, "O3"))
           > Severity(det.detailed[1].health_level)

StatisticalReturned == det.op = "detect_statistical_anomalies"

\* C24: on the same data, a point z-flagged at a threshold is z-flagged at
\* every smaller threshold, and a point IQR-flagged at a multiplier is
\* IQR-flagged at every smaller multiplier.
C24_StatisticalMonotonic ==
    StatisticalReturned =>
        LET st == Stats(DropNa(det.data))
        IN  \A k \in Points :
                LET p == det.detailed[k]
                IN  /\ p.is_z_anomaly =>
                          \A h \in {g \in ZThresholds :
                                        g < det.z_threshold} :
                              ZAnomalyAt(st, p.value, h)
                    /\ p.is_iqr_anomaly =>
                          \A m \in {g \in IqrMultipliers :
                                        g < det.iqr_multiplier} :
                              IqrAnomalyAt(st, p.value, m)

\* a call above the smallest thresholds with a point flagged both ways,
\* and a point that only a smaller threshold flags
C24_Witness ==
    /\ StatisticalReturned
    /\ det.z_threshold > SetMin(ZThresholds)
    /\ det.iqr_multiplier > SetMin(IqrMultipliers)
    /\ LET st == Stats(DropNa(det.data))
       IN  /\ \E k \in Points :
                 /\ det.detailed[k].is_z_anomaly
                 /\ det.detailed[k].is_iqr_anomaly
           /\ \E k \in Points :
                 /\ ~det.detailed[k].is_z_anomaly
                 /\ ZAnomalyAt(st, det.detailed[k].value,
                               SetMin(ZThresholds))

-----------------------------------------------------------------------------
(* Claims on get_or_train_model and the load-or-train fallback             *)

GetOrTrainReturned == mgr.op.name = "get_or_train_model"

\* whether EnhancedLSTMModel's own training succeeds on series s with
\* sequence_length L
Trainable(L, s) ==
    LET p == PrepareTrainingData("enhanced", L, s)
    IN  Train([NewInstance("enhanced", L) EXCEPT !.scaler = p.scaler],
              p, 0).ok

\* C25: get_or_train_model returns the loaded model when a bundle exists
\* and force_retrain is false; with no bundle, or force_retrain, and
\* training data it trains, returns the new model, and afterwards the
\* bundle exists and the cache holds that same instance; with no training
\* data in that case it raises.
C25_GetOrTrain ==
    GetOrTrainReturned =>
        LET op == mgr.op
        IN  /\ (op.existed /\ ~op.force) =>
                  /\ op.ok
                  /\ mgr.cache[op.L].loaded
                  /\ op.model = mgr.cache[op.L].inst
            /\ ((~op.existed \/ op.force) /\ ~op.hasData) => ~op.ok
            /\ (/\ ~op.existed \/ op.force
                /\ op.hasData
                /\ Trainable(op.L, op.data)) =>
                  /\ op.ok
                  /\ ModelExists(bundle)
                  /\ mgr.cache[op.L].loaded
                  /\ op.model = mgr.cache[op.L].inst

EnhancedEntryFilled ==
    /\ call.op = EntryName("enhanced")
    /\ NGaps(call.input) > 0
    /\ call.ok
    /\ \E k \in 1..Len(call.predictions) : ~IsNa(call.predictions[k])

\* C26: when fill_air_quality_gaps_enhanced could not load the bundle
\* (any artifact missing), every prediction it returns comes from a model
\* trained on the provided data in that call.
C26_LoadOrTrain ==
    (EnhancedEntryFilled /\ ~call.load_ok) => call.trained

-----------------------------------------------------------------------------
(* Claims on the flags of fill_gaps                                        *)

\* the model's prediction for the window of rows [r - L, r) of the scaled
\* table of the call
WindowPrediction(r) ==
    ScalerInverse(inst.scaler,
        Net(inst.model.w, SubSeq(call.scaled, r - call.L, r - 1)))

\* C27: after fill_gaps, of either class, a row at position r >
\* sequence_length (index r - 1 >= sequence_length) whose original value is
\* missing has filled_value equal to the model's prediction for the window
\* of the sequence_length rows before it and was_gap = gap_filled = true;
\* every other row has was_gap = gap_filled = false.
C27_GapFlags ==
    FillReturned =>
        \A r \in 1..Len(call.input) :
            IF r > call.L /\ IsNa(call.input[r])
            THEN /\ call.rows[r].filled_value = WindowPrediction(r)
                 /\ call.rows[r].was_gap
                 /\ call.rows[r].gap_filled
            ELSE /\ ~call.rows[r].was_gap
                 /\ ~call.rows[r].gap_filled

\* a fill with a gap before the first window's target (not flagged), a
\* filled gap after it, and a present row
C27_Witness ==
    /\ FillReturned
    /\ IsNa(call.input[1])
    /\ ~call.rows[1].was_gap
    /\ \E r \in 1..Len(call.input) :
          /\ call.rows[r].was_gap
          /\ ~IsNa(call.rows[r].filled_value)
    /\ \E r \in 1..Len(call.input) : ~IsNa(call.input[r])

-----------------------------------------------------------------------------
(* Claims on the bundle during save_model                                  *)

\* the three loaded fields of an instance
Artifacts(i) == <<i.model, i.scaler, i.metadata>>

\* the artifacts of the training runs of the script, one triple per run
RunArtifacts ==
    {Artifacts(r.inst) :
        r \in {q \in {ScriptRun(s, w) :
                          s \in SaveSeries, w \in ManagerWeights} : q.ok}}

LoadReturned == mgr.op.name = "load_model"

\* C28: whenever a load of the bundle succeeds (all three files exist),
\* during a save_model, after an interrupted one or after a complete one,
\* the network, the scaler and the metadata it obtains are those of one
\* training run.
C28_NoMixedBundle ==
    (LoadReturned /\ mgr.op.ok) => Artifacts(mgr.op.model) \in RunArtifacts

-----------------------------------------------------------------------------
(* Claims on delete_model                                                  *)

\* the cache keys of parameter p, one per sequence length
KeysOf(p) == {CacheKey(p, L) : L \in ManagerSeqLens}

\* a step that is a delete_model call
DeleteStep == mgr.op.name = "none" /\ mgr'.op.name = "delete_model"

\* C29: a delete_model(p) that returns True empties exactly the cache
\* entries of p and removes the bundle of p, leaving the entries and the
\* bundles of every other parameter as they were, also of a parameter whose
\* name starts with p; one that returns False changes neither files nor
\* cache; and a cached model of p always has its bundle on disk, so that
\* load_model(p, L) returns None from the deletion until the next save
C29_DeleteFrame ==
    /\ [][DeleteStep =>
            LET p == mgr'.op.parameter
            IN  IF mgr'.op.ok
                THEN /\ \A k \in DeleteKeys :
                          mgr'.cache[k] = IF k \in KeysOf(p) THEN NoCache
                                          ELSE mgr.cache[k]
                     /\ \A q \in DeleteParams :
                          bundle'[ModelName(q)] =
                              IF q = p THEN NoBundle
                              ELSE bundle[ModelName(q)]
                ELSE mgr'.cache = mgr.cache /\ bundle' = bundle]_vars
    /\ [](\A p \in DeleteParams, L \in ManagerSeqLens :
            mgr.cache[CacheKey(p, L)].loaded =>
                ModelExists(bundle[ModelName(p)]))

-----------------------------------------------------------------------------
(* Claims on the chatbot's classification                                  *)

\* the levels from the least to the most severe
LevelOrder ==
    <<"good", "moderate", "unhealthy_sensitive", "unhealthy",
      "very_unhealthy", "hazardous">>

LevelSeverity(level) ==
    CHOOSE k \in 1..Len(LevelOrder) : LevelOrder[k] = level

ClassifyReturned == call.op = "classify_aqi_level"

\* C30: the level classify_aqi_level returns for a non-negative value,
\* whole or fractional, is never more severe than the level it returns for
\* any larger value, and a value above 15 is classified at least 'moderate'
C30_ClassifyMonotonic ==
    ClassifyReturned =>
        /\ \A b \in {x \in ChatValues : x >= call.value} :
              LevelSeverity(call.level)
                  <= LevelSeverity(ClassifyAqiLevel(b, call.param))
        /\ call.value > 15 * ChatDenom =>
              LevelSeverity(call.level) >= LevelSeverity("moderate")

=============================================================================
